---- MODULE Spec2Model ----
(***************************************************************************)
(* A model of the geoarray package: the lazy file grid of geogridbase.py   *)
(* (_GeoGridBase, _DummyGrid, _GdalGrid, _GridWriter) and the projection,  *)
(* transformer, type table, driver lookup and warp planner of gdalfuncs.py,*)
(* and the array() initializer of geoarray.py.                             *)
(*                                                                         *)
(* Each behaviour exercises one component: Init leaves every component     *)
(* idle, a Start/Construct action of one component picks its inputs, and   *)
(* the component's operations then act on it.                              *)
(*                                                                         *)
(* numpy is modelled as the releases the Python 2 sources were written     *)
(* against (numpy < 1.13): `array == None` is the scalar False and a       *)
(* boolean index is applied through its nonzero() positions.               *)
(***************************************************************************)
EXTENDS Integers, Sequences, FiniteSets, TLC

VARIABLES
    grid,   \* the _GeoGridBase object under test (cls = "none" before construction)
    reads,  \* number of _readData invocations on that object
    gop,    \* the last operation applied to the grid, its arguments and outcome
    given,  \* whether the grid was constructed with data
    tx,     \* the projections and the _Transformer built from them
    tcall,  \* the last _Transformer call: its point and outcome
    plan,   \* the last _warp call: its source grid, transformer and result
    tm,     \* the last TYPEMAP lookup: a key, its value and the value's value
    pj,     \* the last projection built from a parameter mapping and read back
    wr,     \* the last write: the grid, the raster built, the driver, the file
    ar      \* the last array() call: its data, its arguments, the GeoArray call

gridVars == <<grid, reads, gop, given>>

transVars == <<tx, tcall>>

ioVars == <<tm, pj, wr, ar>>

vars == <<grid, reads, gop, given, tx, tcall, plan, tm, pj, wr, ar>>

(***************************************************************************)
(* Bounds and input sets                                                   *)
(***************************************************************************)
DTypes == {"uint8", "float64"}

\* (nbands, nrows, ncols) of the grids that are constructed
Shapes == {<<1, 1, 2>>, <<1, 2, 2>>, <<2, 1, 2>>}

NodataVals == {-1, 255}

WriteVals == {0}

\* index tuples: <<>> is the full slice [:], <<i>> is g[i], <<i, j>> is g[i, j], ...
Indices ==
    {<<>>} \cup {<<i>> : i \in 0..1} \cup {<<i, j>> : i \in 0..1, j \in 0..1}
    \cup {<<0, 0, 1>>, <<1, 0, 0>>}

(***************************************************************************)
(* numpy arrays: a dtype, a shape and the cells in row-major order         *)
(***************************************************************************)
None == [dtype |-> "None", shape |-> <<>>, flat |-> <<>>]

IsNone(a) == a.dtype = "None"

RECURSIVE Prod(_)
Prod(s) == IF s = <<>> THEN 1 ELSE s[1] * Prod(Tail(s))

\* dtype(value): the scalar conversion of np.dtype(...).type
Cast(dt, v) ==
    CASE dt = "uint8" -> v % 256
      [] dt = "int8" -> ((v + 128) % 256) - 128
      [] OTHER -> v

AsType(a, dt) ==
    [dtype |-> dt, shape |-> a.shape,
     flat |-> [i \in DOMAIN a.flat |-> Cast(dt, a.flat[i])]]

Full(dt, shape, v) ==
    [dtype |-> dt, shape |-> shape,
     flat |-> [i \in 1..Prod(shape) |-> Cast(dt, v)]]

Rest(shape, k) == SubSeq(shape, k + 1, Len(shape))

InRange(shape, idx) ==
    /\ Len(idx) <= Len(shape)
    /\ \A i \in 1..Len(idx) : idx[i] \in 0..(shape[i] - 1)

RECURSIVE Offset(_, _)
Offset(shape, idx) ==
    IF idx = <<>> THEN 0
    ELSE idx[1] * Prod(Tail(shape)) + Offset(Tail(shape), Tail(idx))

\* the flat positions (1-based) that the index tuple idx selects
Block(shape, idx) ==
    LET n == Prod(Rest(shape, Len(idx)))
    IN  (Offset(shape, idx) + 1)..(Offset(shape, idx) + n)

RECURSIVE Unravel(_, _)
Unravel(shape, p) ==
    IF shape = <<>> THEN <<>>
    ELSE <<p \div Prod(Tail(shape))>> \o Unravel(Tail(shape), p % Prod(Tail(shape)))

\* a[idx]: IndexError when idx has too many entries or one is out of range
ArrGet(a, idx) ==
    IF ~InRange(a.shape, idx) THEN [ok |-> FALSE, arr |-> None]
    ELSE [ok |-> TRUE,
          arr |-> [dtype |-> a.dtype, shape |-> Rest(a.shape, Len(idx)),
                   flat |-> SubSeq(a.flat, Offset(a.shape, idx) + 1,
                                   Offset(a.shape, idx) + Prod(Rest(a.shape, Len(idx))))]]

\* a[idx] = v: the scalar v is cast to the array's dtype and broadcast
ArrSet(a, idx, v) ==
    IF ~InRange(a.shape, idx) THEN [ok |-> FALSE, arr |-> a]
    ELSE [ok |-> TRUE,
          arr |-> [a EXCEPT !.flat =
                     [i \in DOMAIN a.flat |->
                        IF i \in Block(a.shape, idx) THEN Cast(a.dtype, v)
                        ELSE a.flat[i]]]]

\* a == v, elementwise
ArrEq(a, v) ==
    [dtype |-> "bool", shape |-> a.shape,
     flat |-> [i \in DOMAIN a.flat |-> a.flat[i] = v]]

\* the index tuples of the True cells of a boolean array: mask.nonzero()
NonZero(mask) ==
    {Unravel(mask.shape, p - 1) : p \in {q \in DOMAIN mask.flat : mask.flat[q]}}

\* a[mask] = v: every True position of the mask indexes the leading axes of a
ArrMaskSet(a, mask, v) ==
    IF \E m \in NonZero(mask) : ~InRange(a.shape, m)
    THEN [ok |-> FALSE, arr |-> a]
    ELSE [ok |-> TRUE,
          arr |-> [a EXCEPT !.flat =
                     [i \in DOMAIN a.flat |->
                        IF \E m \in NonZero(mask) : i \in Block(a.shape, m)
                        THEN Cast(a.dtype, v) ELSE a.flat[i]]]]

\* np.squeeze(a, 0): ValueError unless the first axis has length 1
NpSqueeze0(a) ==
    IF Len(a.shape) >= 1 /\ a.shape[1] = 1
    THEN [ok |-> TRUE, arr |-> [a EXCEPT !.shape = Tail(a.shape)]]
    ELSE [ok |-> FALSE, arr |-> a]

Abs(n) == IF n < 0 THEN -n ELSE n

(***************************************************************************)
(* Proj4 parameter strings (both files)                                    *)
(***************************************************************************)
\* a text is a sequence of symbols: the delimiters and the words between them
Delims == {"+", "=", " "}

\* the maximal runs of symbols of `text` that contain no symbol of D
RECURSIVE SplitOn(_, _, _)
SplitOn(text, D, cur) ==
    IF text = <<>> THEN (IF cur = <<>> THEN <<>> ELSE <<cur>>)
    ELSE IF Head(text) \in D
         THEN (IF cur = <<>> THEN <<>> ELSE <<cur>>) \o SplitOn(Tail(text), D, <<>>)
         ELSE SplitOn(Tail(text), D, Append(cur, Head(text)))

\* dict(zip(proj[0::2], proj[1::2])): tokens paired in turn, a trailing odd
\* token dropped, a later pair replacing an earlier one with the same key
ZipPairs(proj) ==
    LET n == Len(proj) \div 2
        pairs == [i \in 1..n |-> <<proj[2 * i - 1], proj[2 * i]>>]
    IN  {pairs[i] : i \in {j \in 1..n : \A k \in (j + 1)..n : pairs[k][1] # pairs[j][1]}}

\* osr ImportFromProj4: the library reads each "+key=value" item on its own;
\* the reference it holds is the set of those pairs
ImportFromProj4(text) ==
    LET items == SplitOn(text, {" "}, <<>>)
        parts == [i \in DOMAIN items |-> SplitOn(items[i], {"+", "="}, <<>>)]
    IN  {<<parts[i][1], parts[i][2]>> : i \in {j \in DOMAIN items : Len(parts[j]) = 2}}

\* _Projection.getProj4 / _GdalGrid._proj4Params on the exported text:
\* [x for x in re.split("[+= ]", tmp) if x], then the pairing
getProj4(text) == ZipPairs(SplitOn(text, Delims, <<>>))

\* "=".join(pp)
RECURSIVE JoinEq(_)
JoinEq(pp) ==
    IF pp = <<>> THEN <<>>
    ELSE IF Len(pp) = 1 THEN pp[1]
    ELSE pp[1] \o <<"=">> \o JoinEq(Tail(pp))

\* " +".join(items)
RECURSIVE JoinPlus(_)
JoinPlus(items) ==
    IF items = <<>> THEN <<>>
    ELSE IF Len(items) = 1 THEN JoinEq(items[1])
    ELSE JoinEq(items[1]) \o <<" ", "+">> \o JoinPlus(Tail(items))

\* _Projection.__init__ (dict) / _GridWriter._proj4String:
\* "+{:}".format(" +".join(["=".join(pp) for pp in items]))
proj4String(items) == <<"+">> \o JoinPlus(items)

\* value-less flags the library may put into an exported text
Flags == {<<<<"wktext">>>>, <<<<"no_defs">>>>}

\* the sequences over the set S in which every element of S occurs once
Orders(S) ==
    {q \in [1..Cardinality(S) -> S] : \A i, j \in DOMAIN q : q[i] = q[j] => i = j}

\* osr ExportToProj4 of a reference holding the pairs `ref`: the pairs as
\* "+key=value" items in any order, with flags among them; "" for an empty
\* reference
ExportToProj4(ref) ==
    IF ref = {} THEN {<<>>}
    ELSE {proj4String(q) : q \in UNION {Orders(ref \cup F) : F \in SUBSET Flags}}

\* the parameter mappings a projection is built from, as sets of <<key, value>>
ParamMappings ==
    {{}, {<<<<"proj">>, <<"merc">>>>}, {<<<<"x_0">>, <<"0", ".", "0">>>>},
     {<<<<"proj">>, <<"merc">>>>, <<<<"x_0">>, <<"0", ".", "0">>>>}}

(***************************************************************************)
(* Tables of gdalfuncs.py and geogridbase.py                               *)
(***************************************************************************)
\* keys and values of TYPEMAP: a kind name or an integer code
Name(n) == [t |-> "name", n |-> n, c |-> 0]

Code(c) == [t |-> "code", n |-> "", c |-> c]

\* TYPEMAP with code 1 mapped back to uint8
TYPEMAP_Uint8Back ==
    <<
      <<Name("uint8"), Code(1)>>, <<Name("int8"), Code(1)>>,
      <<Name("uint16"), Code(2)>>, <<Name("int16"), Code(3)>>,
      <<Name("uint32"), Code(4)>>, <<Name("int32"), Code(5)>>,
      <<Name("float32"), Code(6)>>, <<Name("float64"), Code(7)>>,
      <<Name("complex64"), Code(10)>>, <<Name("complex128"), Code(11)>>,
      <<Code(1), Name("uint8")>>, <<Code(2), Name("uint16")>>,
      <<Code(3), Name("int16")>>, <<Code(4), Name("uint32")>>,
      <<Code(5), Name("int32")>>, <<Code(6), Name("float32")>>,
      <<Code(7), Name("float64")>>, <<Code(10), Name("complex64")>>,
      <<Code(11), Name("complex128")>>
    >>

\* TYPEMAP: the entries of the dict literal, in source order
TYPEMAP ==
    <<
      <<Name("uint8"), Code(1)>>, <<Name("int8"), Code(1)>>,
      <<Name("uint16"), Code(2)>>, <<Name("int16"), Code(3)>>,
      <<Name("uint32"), Code(4)>>, <<Name("int32"), Code(5)>>,
      <<Name("float32"), Code(6)>>, <<Name("float64"), Code(7)>>,
      <<Name("complex64"), Code(10)>>, <<Name("complex128"), Code(11)>>,
      <<Code(1), Name("int8")>>, <<Code(2), Name("uint16")>>,
      <<Code(3), Name("int16")>>, <<Code(4), Name("uint32")>>,
      <<Code(5), Name("int32")>>, <<Code(6), Name("float32")>>,
      <<Code(7), Name("float64")>>, <<Code(10), Name("complex64")>>,
      <<Code(11), Name("complex128")>>
    >>

TypemapKeys == {TYPEMAP[i][1] : i \in DOMAIN TYPEMAP}

\* TYPEMAP[k] for a key of the table: the value of the last entry with key k
TypemapGet(k) ==
    LET i == CHOOSE j \in DOMAIN TYPEMAP :
                 /\ TYPEMAP[j][1] = k
                 /\ \A l \in DOMAIN TYPEMAP : TYPEMAP[l][1] = k => l <= j
    IN  TYPEMAP[i][2]

\* _DRIVER_DICT of geogridbase.py
DRIVER_DICT_Legacy ==
    {<<".tif", "GTiff">>, <<".asc", "AAIGrid">>, <<".bmp", "BMP">>,
     <<".img", "HFA">>, <<".jpg", "JPEG">>}

\* _DRIVER_DICT of gdalfuncs.py
DRIVER_DICT ==
    {<<".tif", "GTiff">>, <<".asc", "AAIGrid">>, <<".img", "HFA">>, <<".png", "PNG">>}

\* file names as <<root, extension>>, the split os.path.splitext makes
FileNames ==
    {<<"out", ".tif">>, <<"out", ".TIF">>, <<"out", ".asc">>, <<"out", ".bmp">>,
     <<"out", ".Png">>, <<"out", ".xyz">>, <<"out", "">>}

\* str.lower on the extensions used
Lower(ext) ==
    CASE ext = ".TIF" -> ".tif"
      [] ext = ".Png" -> ".png"
      [] OTHER -> ext

\* _fnameExtension
fnameExtension(fname) == Lower(fname[2])

\* a capability entry of a driver's metadata: "YES", "NO", or "absent"
Capabilities == {"YES", "NO", "absent"}

Metadata == [DCAP_CREATE : Capabilities, DCAP_CREATECOPY : Capabilities]

\* metadata.get("DCAP_CREATE", metadata.get("DCAP_CREATECOPY")): the default
\* is used only when DCAP_CREATE is absent
MetadataGet(metadata) ==
    IF metadata.DCAP_CREATE # "absent" THEN metadata.DCAP_CREATE
    ELSE metadata.DCAP_CREATECOPY

\* _getDriver (both files): dict is the file's _DRIVER_DICT, metadata the
\* metadata of the driver the extension maps to
getDriver(dict, fext, metadata) ==
    IF \E e \in dict : e[1] = fext
    THEN IF "YES" = MetadataGet(metadata)
         THEN [ok |-> TRUE, driver |-> (CHOOSE e \in dict : e[1] = fext)[2], err |-> ""]
         ELSE [ok |-> FALSE, driver |-> "", err |-> "IOError: canot be written"]
    ELSE [ok |-> FALSE, driver |-> "", err |-> "IOError: no driver"]

(***************************************************************************)
(* _GeoGridBase and its subclasses                                         *)
(***************************************************************************)
\* a GDAL dataset: RasterCount, RasterYSize, RasterXSize, the bands' type, the
\* nodata value of each band, the bands' cells (band after band), the
\* geotransform and the projection (as the text the reference was imported from)
NoFile == [nbands |-> 0, nrows |-> 0, ncols |-> 0, dtype |-> "None",
           nodata |-> <<>>, flat |-> <<>>, trans |-> <<0, 0, 0, 0, 0, 0>>,
           srs |-> <<>>]

NoGrid ==
    [cls |-> "none", nbands |-> 0, nrows |-> 0, ncols |-> 0,
     xllcorner |-> 0, yllcorner |-> 0, cellsize |-> 0,
     dtype |-> "None", nodata |-> 0, data |-> None, proj_params |-> {},
     fobj |-> NoFile]

\* _DummyGrid._readData: an array of the full shape filled with nodata_value
DummyReadData(g) == Full(g.dtype, <<g.nbands, g.nrows, g.ncols>>, g.nodata)

\* _GdalGrid._readData: fobj.ReadAsArray() gives a 2-D array for a single band
GdalReadData(g) ==
    [dtype |-> g.fobj.dtype,
     shape |-> IF g.fobj.nbands = 1 THEN <<g.fobj.nrows, g.fobj.ncols>>
               ELSE <<g.fobj.nbands, g.fobj.nrows, g.fobj.ncols>>,
     flat |-> g.fobj.flat]

readData(g) == IF g.cls = "dummy" THEN DummyReadData(g) ELSE GdalReadData(g)

\* _GeoGridBase._squeeze
squeeze(g) == NpSqueeze0(g.data).arr

\* _GeoGridBase.__getitem__: load on first access, then index the squeezed data
getitem(g, idx) ==
    LET load == IsNone(g.data)
        g1 == IF load THEN [g EXCEPT !.data = AsType(readData(g), g.dtype)] ELSE g
        r == ArrGet(squeeze(g1), idx)
    IN  [g |-> g1, rd |-> IF load THEN 1 ELSE 0, ok |-> r.ok, res |-> r.arr]

\* _GeoGridBase.__setitem__ with an index tuple
setitem(g, idx, value) ==
    LET g1 == IF IsNone(g.data) THEN getitem(g, <<>>) ELSE [g |-> g, rd |-> 0]
        w == ArrSet(g1.g.data, idx, value)
    IN  [g |-> [g1.g EXCEPT !.data = w.arr], rd |-> g1.rd, ok |-> w.ok, res |-> None]

\* _GeoGridBase.__setitem__ with a boolean array
setitemMask(g, mask, value) ==
    LET g1 == IF IsNone(g.data) THEN getitem(g, <<>>) ELSE [g |-> g, rd |-> 0]
        w == ArrMaskSet(g1.g.data, mask, value)
    IN  [g |-> [g1.g EXCEPT !.data = w.arr], rd |-> g1.rd, ok |-> w.ok, res |-> None]

\* _GeoGridBase._setNodataValue
setNodataValue(g, value) ==
    LET r == getitem(g, <<>>)
        w == setitemMask(r.g, ArrEq(r.res, r.g.nodata), Cast(r.g.dtype, value))
    IN  IF ~w.ok THEN [g |-> w.g, rd |-> r.rd + w.rd, ok |-> FALSE, res |-> None]
        ELSE [g |-> [w.g EXCEPT !.nodata = Cast(w.g.dtype, value)],
              rd |-> r.rd + w.rd, ok |-> TRUE, res |-> None]

\* _GeoGridBase._getShape
getShape(g) ==
    IF g.nbands > 1 THEN <<g.nbands, g.nrows, g.ncols>> ELSE <<g.nrows, g.ncols>>

\* __consistentTypes that re-derives the nodata value but leaves cached data alone
consistentTypesNoAstype(g) == [g EXCEPT !.nodata = Cast(g.dtype, g.nodata)]

\* _GeoGridBase.__consistentTypes
consistentTypes(g) ==
    LET g1 == [g EXCEPT !.nodata = Cast(g.dtype, g.nodata)]
    IN  IF IsNone(g1.data) THEN g1
        ELSE [g1 EXCEPT !.data = AsType(getitem(g1, <<>>).res, g1.dtype)]

\* _GeoGridBase._setDataType
setDataType(g, value) == consistentTypes([g EXCEPT !.dtype = value])

\* _GeoGridBase.__init__; geo is <<xllcorner, yllcorner, cellsize>>
init(cls, fobj, shape, geo, dtype, data, nodata_value, proj_params) ==
    LET g0 == [NoGrid EXCEPT !.cls = cls, !.nodata = nodata_value, !.data = data,
                             !.fobj = fobj]
        g1 == setDataType(g0, dtype)
        g2 == [g1 EXCEPT !.nbands = IF shape[1] # 0 THEN shape[1] ELSE 1,
                         !.nrows = shape[2], !.ncols = shape[3],
                         !.xllcorner = geo[1], !.yllcorner = geo[2],
                         !.cellsize = geo[3], !.proj_params = proj_params]
    IN  consistentTypes(g2)

\* _GdalGrid._yllcorner
yllcorner(yulcorner, cs, nrows) ==
    IF cs < 0 THEN yulcorner + (cs * nrows) ELSE yulcorner

\* _GdalGrid._cellsize
cellsize(x_cellsize, y_cellsize) ==
    IF Abs(x_cellsize) = Abs(y_cellsize)
    THEN [ok |-> TRUE, val |-> Abs(x_cellsize), err |-> ""]
    ELSE [ok |-> FALSE, val |-> 0, err |-> "NotImplementedError"]

\* _GdalGrid.__init__ on an opened dataset; ptext is the text ExportToProj4
\* gives for the dataset's projection
gdalInit(fobj, ptext, proj_params, dtype) ==
    LET trans == fobj.trans
        pparams == getProj4(ptext)
        cs == cellsize(trans[2], trans[6])
    IN  IF ~cs.ok THEN [ok |-> FALSE, err |-> cs.err, g |-> NoGrid]
        ELSE [ok |-> TRUE, err |-> "",
              g |-> init("gdal", fobj, <<fobj.nbands, fobj.nrows, fobj.ncols>>,
                         <<trans[1], yllcorner(trans[4], trans[6], fobj.nrows), cs.val>>,
                         IF dtype # "None" THEN dtype ELSE fobj.dtype, None,
                         fobj.nodata[1],
                         IF pparams # {} THEN pparams ELSE proj_params)]

(***************************************************************************)
(* _GridWriter (geogridbase.py)                                            *)
(***************************************************************************)
\* gdal.GetDataTypeByName(dtype.__name__), for the kinds whose numpy name is a
\* GDAL type name up to case
GetDataTypeByName(name) == IF name = "float64" THEN "float64" ELSE "Unknown"

\* the MEM driver's Create: a zero-filled raster without nodata values
Create(ncols, nrows, nbands, dtype) ==
    [NoFile EXCEPT !.nbands = nbands, !.nrows = nrows, !.ncols = ncols,
                   !.dtype = dtype, !.nodata = [b \in 1..nbands |-> 0],
                   !.flat = [i \in 1..(nbands * nrows * ncols) |-> 0]]

\* Band.WriteArray(array) on band n of the raster: the array must have two
\* dimensions and fit into the band; it is written from the band's first cell
WriteArray(out, n, array) ==
    IF Len(array.shape) # 2
    THEN [ok |-> FALSE, out |-> out, err |-> "ValueError"]
    ELSE IF array.shape[1] > out.nrows \/ array.shape[2] > out.ncols
    THEN [ok |-> FALSE, out |-> out, err |-> "ValueError"]
    ELSE [ok |-> TRUE, err |-> "",
          out |-> [out EXCEPT !.flat =
                     [i \in DOMAIN out.flat |->
                        LET k == i - 1 - (n - 1) * out.nrows * out.ncols
                            r == k \div out.ncols
                            c == k % out.ncols
                        IN  IF k >= 0 /\ k < out.nrows * out.ncols
                               /\ r < array.shape[1] /\ c < array.shape[2]
                            THEN array.flat[r * array.shape[2] + c + 1]
                            ELSE out.flat[i]]]]

\* the band loop of _writeGdalMemory from band n on:
\* SetNoDataValue(float(nodata_value)), WriteArray(self.fobj[:])
RECURSIVE writeBands(_, _, _)
writeBands(g, out, n) ==
    IF n > g.nbands THEN [ok |-> TRUE, err |-> "", g |-> g, out |-> out]
    ELSE LET o1 == [out EXCEPT !.nodata[n] = g.nodata]
             r == getitem(g, <<>>)
             w == WriteArray(o1, n, r.res)
         IN  IF ~w.ok THEN [ok |-> FALSE, err |-> w.err, g |-> r.g, out |-> NoFile]
             ELSE writeBands(r.g, w.out, n + 1)

\* _GridWriter._writeGdalMemory; items is proj_params.items()
writeGdalMemory(g, items) ==
    LET out == Create(g.ncols, g.nrows, g.nbands, GetDataTypeByName(g.dtype))
        o1 == [out EXCEPT !.trans = <<g.xllcorner, g.cellsize, 0,
                                      g.yllcorner + (g.nrows * g.cellsize),
                                      0, g.cellsize * (-1)>>,
                          !.srs = proj4String(items)]
    IN  writeBands(g, o1, 1)

NoDriver == [ok |-> FALSE, driver |-> "", err |-> ""]

\* what CreateCopy may do: write the file, or fail leaving nothing or a
\* fragment behind
CopyOutcomes == {"ok", "fail", "fail_fragment"}

\* CreateCopy and the check of its result
CreateCopy(cc) ==
    [ok |-> cc = "ok", err |-> IF cc = "ok" THEN "" ELSE "IOError: backend",
     file |-> CASE cc = "ok" -> "written"
                [] cc = "fail" -> "none"
                [] OTHER -> "fragment"]

\* _GridWriter.write: the in-memory raster, then the driver, then the copy
write(g, items, fname, metadata, cc) ==
    LET m == writeGdalMemory(g, items)
        d == getDriver(DRIVER_DICT_Legacy, fnameExtension(fname), metadata)
        c == CreateCopy(cc)
    IN  IF ~m.ok
        THEN [ok |-> FALSE, err |-> m.err, g |-> m.g, built |-> FALSE,
              memset |-> NoFile, drv |-> NoDriver, file |-> "none"]
        ELSE IF ~d.ok
        THEN [ok |-> FALSE, err |-> d.err, g |-> m.g, built |-> TRUE,
              memset |-> m.out, drv |-> d, file |-> "none"]
        ELSE [ok |-> c.ok, err |-> c.err, g |-> m.g, built |-> TRUE,
              memset |-> m.out, drv |-> d, file |-> c.file]

(***************************************************************************)
(* _Projection and _Transformer (gdalfuncs.py)                             *)
(***************************************************************************)
\* the reference systems the backing library can resolve; "" is the empty
\* osr.SpatialReference (nothing imported, or an import that failed)
CRSs == {"EPSG:4326", "EPSG:32632"}

\* constructor arguments: the kind of the argument and the reference system
\* the library resolves it to
ProjArgs ==
    {[kind |-> k, crs |-> c] : k \in {"int", "dict", "str", "proj"}, c \in CRSs \cup {""}}
    \cup {[kind |-> "other", crs |-> ""]}

\* _Projection.__init__: the Import* calls report a failure by their return
\* value, which is ignored; an argument of no handled type imports nothing
Projection(arg) ==
    [srs |-> IF arg.kind \in {"int", "dict", "str", "proj"} THEN arg.crs ELSE ""]

NoRef == "None"

\* _Projection.getReference
getReference(p) == IF p.srs # "" THEN p.srs ELSE NoRef

\* linear coordinate maps <<a, b, c, d>>: xt = a*x + b*y, yt = c*x + d*y
Identity == <<1, 0, 0, 1>>

Maps ==
    {m \in {<<a, b, c, d>> : a \in -1..1, b \in -1..1, c \in -1..1, d \in -1..1} :
        m[1] * m[4] - m[2] * m[3] # 0}

\* the coordinate maps the library may implement between two references
LibMaps(sref, tref) == IF sref = tref THEN {Identity} ELSE Maps

\* _Transformer.__init__: osr.CoordinateTransformation of the two references;
\* with a missing reference the handle it yields cannot transform
Transformer(sproj, tproj, map, degenerate) ==
    [usable |-> getReference(sproj) # NoRef /\ getReference(tproj) # NoRef,
     map |-> map, degenerate |-> degenerate]

NoCall == [y |-> 0, x |-> 0, ok |-> TRUE, err |-> "", yt |-> 0, xt |-> 0]

\* __call__ without the except clause: the library's error reaches the caller
callNoExcept(t, y, x) ==
    IF ~t.usable
    THEN [y |-> y, x |-> x, ok |-> FALSE, err |-> "NotImplementedError", yt |-> 0, xt |-> 0]
    ELSE IF <<x, y>> \in t.degenerate
    THEN [y |-> y, x |-> x, ok |-> FALSE, err |-> "RuntimeError", yt |-> 0, xt |-> 0]
    ELSE [y |-> y, x |-> x, ok |-> TRUE, err |-> "",
          yt |-> t.map[3] * x + t.map[4] * y, xt |-> t.map[1] * x + t.map[2] * y]

\* _Transformer.__call__: TransformPoint(x, y); NotImplementedError (the unusable
\* handle) becomes AttributeError, any other library error propagates
call(t, y, x) ==
    IF ~t.usable
    THEN [y |-> y, x |-> x, ok |-> FALSE, err |-> "AttributeError", yt |-> 0, xt |-> 0]
    ELSE IF <<x, y>> \in t.degenerate
    THEN [y |-> y, x |-> x, ok |-> FALSE, err |-> "RuntimeError", yt |-> 0, xt |-> 0]
    ELSE [y |-> y, x |-> x, ok |-> TRUE, err |-> "",
          yt |-> t.map[3] * x + t.map[4] * y, xt |-> t.map[1] * x + t.map[2] * y]

NoTx == [st |-> "none", sproj |-> Projection([kind |-> "other", crs |-> ""]),
         tproj |-> Projection([kind |-> "other", crs |-> ""]),
         t |-> Transformer(Projection([kind |-> "other", crs |-> ""]),
                           Projection([kind |-> "other", crs |-> ""]), Identity, {})]

\* points handed to the transformer, as <<x, y>>
Points == {<<0, 0>>, <<1, 2>>, <<-2, 1>>}

\* the maps tried between two different reference systems
CallMaps == {Identity, <<0, -1, 1, 0>>, <<1, 1, -1, 1>>}

(***************************************************************************)
(* The footprint planner _warp (gdalfuncs.py)                              *)
(***************************************************************************)
MaxDim == 3

Max2(a, b) == IF a > b THEN a ELSE b

Min2(a, b) == IF a < b THEN a ELSE b

Max4(a, b, c, d) == Max2(Max2(a, b), Max2(c, d))

Min4(a, b, c, d) == Min2(Min2(a, b), Min2(c, d))

\* cellsize pairs (dy, dx) of the source grids
CellSizes == {<<-1, 1>>, <<-2, 2>>, <<1, 1>>, <<-1, 2>>, <<-2, 1>>}

Corners == {"ul", "ur", "ll", "lr"}

\* GeoArray.bbox: the origin is the corner named by `origin`
bbox(g) ==
    LET w == g.ncols * Abs(g.cellsize[2])
        h == g.nrows * Abs(g.cellsize[1])
        left == g.origin \in {"ul", "ll"}
        upper == g.origin \in {"ul", "ur"}
    IN  [xmin |-> IF left THEN g.xorigin ELSE g.xorigin - w,
         xmax |-> IF left THEN g.xorigin + w ELSE g.xorigin,
         ymin |-> IF upper THEN g.yorigin - h ELSE g.yorigin,
         ymax |-> IF upper THEN g.yorigin ELSE g.yorigin + h]

\* int(abs(round(w / sqrt(t2 / s2)))) with Python 2's round (half away from
\* zero), computed exactly: the n with (n - 1/2)^2 <= w^2 * s2 / t2 < (n + 1/2)^2
RoundCells(w, t2, s2) ==
    CHOOSE n \in 0..(2 * Abs(w) * s2 + 1) :
        /\ 4 * w * w * s2 < (2 * n + 1) * (2 * n + 1) * t2
        /\ n > 0 => (2 * n - 1) * (2 * n - 1) * t2 <= 4 * w * w * s2

NoPlan ==
    [st |-> "none", shape |-> <<0, 0, 0>>, value |-> 0, fill_value |-> 0,
     dtype |-> "None", yorigin |-> 0, xorigin |-> 0, origin |-> "ul",
     tcellsize2 |-> <<0, 1>>, proj |-> "", err |-> ""]

\* the source diagonal taken as nrows + ncols
sdiag2Sum(g) == (g.nrows + g.ncols) * (g.nrows + g.ncols)

\* sdiag squared: the source diagonal in cells
sdiag2(g) == g.nrows * g.nrows + g.ncols * g.ncols

\* tdiag squared: the transformed ll-ur diagonal
tdiag2(ll, ur) ==
    (ll.yt - ur.yt) * (ll.yt - ur.yt) + (ll.xt - ur.xt) * (ll.xt - ur.xt)

\* _warp: the four bbox corners are transformed; the target cellsize is the
\* transformed ll-ur diagonal over the source diagonal in cells, kept as the
\* pair <<t2, s2>> with tcellsize^2 = t2 / s2; the result's cellsize is
\* (-tcellsize, tcellsize)
warp(g, proj, t) ==
    LET b == bbox(g)
        ul == call(t, b.ymax, b.xmin)
        lr == call(t, b.ymin, b.xmax)
        ur == call(t, b.ymax, b.xmax)
        ll == call(t, b.ymin, b.xmin)
        s2 == sdiag2(g)
        t2 == tdiag2(ll, ur)
    IN  IF ~ul.ok THEN [NoPlan EXCEPT !.st = "raised", !.err = ul.err]
        ELSE IF ~lr.ok THEN [NoPlan EXCEPT !.st = "raised", !.err = lr.err]
        ELSE IF ~ur.ok THEN [NoPlan EXCEPT !.st = "raised", !.err = ur.err]
        ELSE IF ~ll.ok THEN [NoPlan EXCEPT !.st = "raised", !.err = ll.err]
        ELSE IF t2 = 0 THEN [NoPlan EXCEPT !.st = "raised", !.err = "OverflowError"]
        ELSE [st |-> "ok",
              shape |-> <<g.nbands,
                          RoundCells(Max2(ur.yt, lr.yt) - Min2(ul.yt, ll.yt), t2, s2),
                          RoundCells(Max2(ur.xt, lr.xt) - Min2(ul.xt, ll.xt), t2, s2)>>,
              value |-> g.fill_value, fill_value |-> g.fill_value,
              dtype |-> g.dtype,
              yorigin |-> Max4(ul.yt, ur.yt, ll.yt, lr.yt),
              xorigin |-> Min4(ul.xt, ur.xt, ll.xt, lr.xt),
              origin |-> "ul", tcellsize2 |-> <<t2, s2>>, proj |-> proj, err |-> ""]

\* the source grids handed to the planner
SourceGrids ==
    {[nbands |-> nb, nrows |-> nr, ncols |-> nc, yorigin |-> 10, xorigin |-> 0,
      origin |-> o, cellsize |-> cs, fill_value |-> -1, dtype |-> "float64",
      proj |-> Projection([kind |-> "str", crs |-> c])] :
        nb \in 1..2, nr \in 1..MaxDim, nc \in 1..MaxDim, o \in Corners,
        cs \in CellSizes, c \in {"EPSG:4326", ""}}

NoSource ==
    [nbands |-> 0, nrows |-> 0, ncols |-> 0, yorigin |-> 0, xorigin |-> 0,
     origin |-> "ul", cellsize |-> <<0, 0>>, fill_value |-> 0, dtype |-> "None",
     proj |-> Projection([kind |-> "other", crs |-> ""])]

NoWarp == [st |-> "none", g |-> NoSource, t |-> NoTx.t, res |-> NoPlan]

(***************************************************************************)
(* _getDataset and _toFile (gdalfuncs.py)                                  *)
(***************************************************************************)
\* a GeoArray: the data array of rank 2 or 3 with the attributes derived from
\* its shape, the georeference, and the dataset it was decoded from (NoFile
\* when it was not decoded from a file)
GeoArray(data, cs, fill_value, proj, fobj) ==
    LET nd == Len(data.shape)
    IN  [data |-> data, ndim |-> nd, dtype |-> data.dtype,
         nbands |-> IF nd > 2 THEN data.shape[nd - 2] ELSE 1,
         nrows |-> data.shape[nd - 1], ncols |-> data.shape[nd],
         yorigin |-> 10, xorigin |-> 0, origin |-> "ul", cellsize |-> cs,
         fill_value |-> fill_value, proj |-> proj, fobj |-> fobj]

NoGeoArray ==
    GeoArray([dtype |-> "None", shape |-> <<0, 0>>, flat |-> <<>>], <<0, 0>>, 0,
             Projection([kind |-> "other", crs |-> ""]), NoFile)

\* the kind of the GDAL type with the given code
GdalType(code) ==
    CASE code = 1 -> "uint8"
      [] code = 2 -> "uint16"
      [] code = 3 -> "int16"
      [] code = 4 -> "uint32"
      [] code = 5 -> "int32"
      [] code = 6 -> "float32"
      [] code = 7 -> "float64"
      [] code = 10 -> "complex64"
      [] OTHER -> "complex128"

\* the band loop of _getDataset from band n on:
\* SetNoDataValue(float(fill_value)), WriteArray(grid[n] if grid.ndim > 2 else grid)
RECURSIVE getDatasetBands(_, _, _)
getDatasetBands(garr, out, n) ==
    IF n > garr.nbands THEN [ok |-> TRUE, err |-> "", out |-> out]
    ELSE LET o1 == [out EXCEPT !.nodata[n] = garr.fill_value]
             w == WriteArray(o1, n, IF garr.ndim > 2
                                    THEN ArrGet(garr.data, <<n - 1>>).arr
                                    ELSE garr.data)
         IN  IF ~w.ok THEN [ok |-> FALSE, err |-> w.err, out |-> NoFile]
             ELSE getDatasetBands(garr, w.out, n + 1)

\* _getDataset
getDataset(garr) ==
    IF garr.fobj # NoFile THEN [ok |-> TRUE, err |-> "", out |-> garr.fobj]
    ELSE LET out == Create(garr.ncols, garr.nrows, garr.nbands,
                           GdalType(TypemapGet(Name(garr.dtype)).c))
             b == bbox(garr)
             o1 == [out EXCEPT !.trans = <<b.xmin, Abs(garr.cellsize[2]), 0,
                                           b.ymax, 0, Abs(garr.cellsize[1]) * (-1)>>,
                               !.srs = IF garr.proj.srs = "" THEN <<>>
                                       ELSE <<garr.proj.srs>>]
         IN  getDatasetBands(garr, o1, 1)

\* _toFile: the dataset, then the driver, then the copy, whose failure the
\* library raises
toFile(geoarray, fname, metadata, cc) ==
    LET m == getDataset(geoarray)
        d == getDriver(DRIVER_DICT, fnameExtension(fname), metadata)
        c == CreateCopy(cc)
    IN  IF ~m.ok
        THEN [ok |-> FALSE, err |-> m.err, built |-> FALSE,
              memset |-> NoFile, drv |-> NoDriver, file |-> "none"]
        ELSE IF ~d.ok
        THEN [ok |-> FALSE, err |-> d.err, built |-> TRUE,
              memset |-> m.out, drv |-> d, file |-> "none"]
        ELSE [ok |-> c.ok, err |-> IF c.ok THEN "" ELSE "RuntimeError",
              built |-> TRUE, memset |-> m.out, drv |-> d, file |-> c.file]

(***************************************************************************)
(* array() (geoarray.py)                                                   *)
(***************************************************************************)
\* an argument or attribute value: None, or a value; the v of None is a
\* placeholder of the value's type
NotPassed(z) == [nil |-> TRUE, v |-> z]

Passed(v) == [nil |-> FALSE, v |-> v]

\* Python's truth value of a: None is false, and so is the value `zero` of a's
\* type (0, the empty tuple)
Truthy(a, zero) == ~a.nil /\ a.v # zero

\* a or b
Or(a, b, zero) == IF Truthy(a, zero) THEN a ELSE b

\* the keyword arguments of array() when none is passed
NoArgs ==
    [dtype |-> NotPassed(""), yorigin |-> NotPassed(0), xorigin |-> NotPassed(0),
     origin |-> NotPassed(""), fill_value |-> NotPassed(0),
     cellsize |-> NotPassed(<<0, 0>>), proj |-> NotPassed(""),
     mode |-> NotPassed("")]

\* np.array(data, dtype=dtype): the array converted when a dtype is given
NpArray(a, dtype) == IF dtype.nil THEN a ELSE AsType(a, dtype.v)

\* array(data, dtype, yorigin, ...): data is [geo, arr, attrs], geo telling
\* whether it is a GeoArray, attrs its attributes; the result is the keyword
\* arguments of the GeoArray(...) call
array(data, args) ==
    LET a == IF data.geo
             THEN [dtype |-> Or(args.dtype, data.attrs.dtype, ""),
                   yorigin |-> Or(args.yorigin, data.attrs.yorigin, 0),
                   xorigin |-> Or(args.xorigin, data.attrs.xorigin, 0),
                   origin |-> Or(args.origin, data.attrs.origin, ""),
                   fill_value |-> Or(args.fill_value, data.attrs.fill_value, 0),
                   cellsize |-> Or(args.cellsize, data.attrs.cellsize, <<>>),
                   proj |-> Or(args.proj, data.attrs.proj, ""),
                   mode |-> Or(args.mode, data.attrs.mode, "")]
             ELSE args
    IN  [data |-> NpArray(data.arr, a.dtype),
         yorigin |-> Or(a.yorigin, Passed(0), 0),
         xorigin |-> Or(a.xorigin, Passed(0), 0),
         origin |-> Or(a.origin, Passed("ul"), ""),
         fill_value |-> a.fill_value,
         cellsize |-> Or(a.cellsize, Passed(<<1, 1>>), <<>>),
         proj |-> a.proj,
         mode |-> a.mode]

\* the cells of the data handed to array()
ArrayCells == [dtype |-> "float64", shape |-> <<1, 2>>, flat |-> <<-1, 300>>]

\* the data handed to array(): a plain array, and a GeoArray with its attributes
ArrayData ==
    {[geo |-> FALSE, arr |-> ArrayCells, attrs |-> NoArgs],
     [geo |-> TRUE, arr |-> ArrayCells,
      attrs |-> [dtype |-> Passed("float64"), yorigin |-> Passed(10),
                 xorigin |-> Passed(3), origin |-> Passed("ll"),
                 fill_value |-> Passed(-1), cellsize |-> Passed(<<-1, 1>>),
                 proj |-> Passed("EPSG:32632"), mode |-> Passed("L")]]}

\* the keyword arguments a caller passes: each is left out or given a legal value
ArrayArgs ==
    [dtype : {NotPassed(""), Passed("uint8")},
     yorigin : {NotPassed(0), Passed(0), Passed(5)},
     xorigin : {NotPassed(0), Passed(0)},
     origin : {NotPassed(""), Passed("lr")},
     fill_value : {NotPassed(0), Passed(0), Passed(7)},
     cellsize : {NotPassed(<<0, 0>>), Passed(<<-2, 2>>)},
     proj : {NotPassed(""), Passed("EPSG:4326")},
     mode : {NotPassed(""), Passed("RGB")}]

NoArray ==
    [st |-> "none", data |-> [geo |-> FALSE, arr |-> None, attrs |-> NoArgs],
     args |-> NoArgs, res |-> array([geo |-> FALSE, arr |-> None, attrs |-> NoArgs],
                                    NoArgs)]

(***************************************************************************)
(* Grid operations                                                         *)
(***************************************************************************)
\* no component has been started
Idle ==
    /\ grid.cls = "none" /\ tx.st = "none" /\ plan.st = "none"
    /\ tm.st = "none" /\ pj.st = "none" /\ wr.st = "none" /\ ar.st = "none"

NoOp == [op |-> "none", idx |-> <<>>, val |-> 0, dt |-> "None", ok |-> TRUE,
         res |-> None, pre |-> NoGrid]

Op(op, idx, val, dt, r, pre) ==
    [op |-> op, idx |-> idx, val |-> val, dt |-> dt, ok |-> r.ok, res |-> r.res,
     pre |-> pre]

\* the array a caller hands to _DummyGrid(data=...)
GivenData(shape) ==
    [dtype |-> "float64", shape |-> shape,
     flat |-> [i \in 1..Prod(shape) |-> IF i % 2 = 1 THEN -1 ELSE 0]]

\* the datasets a _GdalGrid is opened on
Files ==
    {[nbands |-> s[1], nrows |-> s[2], ncols |-> s[3], dtype |-> "float64",
      nodata |-> [b \in 1..s[1] |-> nd],
      flat |-> [i \in 1..Prod(s) |-> IF i % 2 = k THEN -1 ELSE 255],
      trans |-> <<0, 1, 0, s[2], 0, -1>>, srs |-> <<>>] :
        s \in Shapes, nd \in {-1}, k \in 0..1}

ConstructDummy ==
    /\ Idle
    /\ \E s \in Shapes, dt \in DTypes, nd \in NodataVals, wd \in BOOLEAN :
         LET data == IF wd THEN GivenData(s) ELSE None
         IN  /\ grid' = init("dummy", NoFile, s, <<0, 0, 1>>, dt, data, nd, {})
             /\ gop' = [NoOp EXCEPT !.op = "init", !.dt = dt, !.val = nd,
                                    !.pre = [NoGrid EXCEPT !.data = data, !.nodata = nd]]
             /\ given' = wd
             /\ UNCHANGED <<tx, tcall, plan, ioVars>>
    /\ reads' = 0

\* _GdalGrid.__init__
ConstructGdal ==
    /\ Idle
    /\ \E f \in Files, dt \in DTypes \cup {"None"} :
         /\ grid' = gdalInit(f, <<>>, {}, dt).g
         /\ gop' = [NoOp EXCEPT !.op = "init",
                                !.dt = IF dt # "None" THEN dt ELSE f.dtype,
                                !.val = f.nodata[1],
                                !.pre = [NoGrid EXCEPT !.nodata = f.nodata[1]]]
         /\ given' = FALSE
         /\ UNCHANGED <<tx, tcall, plan, ioVars>>
    /\ reads' = 0

GetItem ==
    /\ grid.cls # "none"
    /\ \E idx \in Indices :
         LET r == getitem(grid, idx)
         IN  /\ grid' = r.g
             /\ reads' = reads + r.rd
             /\ gop' = Op("getitem", idx, 0, "None", r, grid)
             /\ UNCHANGED <<given, tx, tcall, plan, ioVars>>

SetItem ==
    /\ grid.cls # "none"
    /\ \E idx \in Indices, v \in WriteVals :
         LET r == setitem(grid, idx, v)
         IN  /\ grid' = r.g
             /\ reads' = reads + r.rd
             /\ gop' = Op("setitem", idx, v, "None", r, grid)
             /\ UNCHANGED <<given, tx, tcall, plan, ioVars>>

SetNodataValue ==
    /\ grid.cls # "none"
    /\ \E v \in NodataVals :
         LET r == setNodataValue(grid, v)
         IN  /\ grid' = r.g
             /\ reads' = reads + r.rd
             /\ gop' = Op("setNodata", <<>>, v, "None", r, grid)
             /\ UNCHANGED <<given, tx, tcall, plan, ioVars>>

SetDataType ==
    /\ grid.cls # "none"
    /\ \E dt \in DTypes :
         /\ grid' = setDataType(grid, dt)
         /\ reads' = reads
         /\ gop' = Op("setDtype", <<>>, 0, dt, [ok |-> TRUE, res |-> None], grid)
         /\ UNCHANGED <<given, tx, tcall, plan, ioVars>>

(***************************************************************************)
(* Projection and transformer operations                                   *)
(***************************************************************************)
MakeProjections ==
    /\ Idle
    /\ \E sarg \in ProjArgs, targ \in ProjArgs :
         tx' = [NoTx EXCEPT !.st = "projs", !.sproj = Projection(sarg),
                            !.tproj = Projection(targ)]
    /\ UNCHANGED <<tcall, plan, gridVars, ioVars>>

BuildTransformer ==
    /\ tx.st = "projs"
    /\ \E m \in LibMaps(tx.sproj.srs, tx.tproj.srs) \cap CallMaps,
          deg \in {{}, {<<0, 0>>}} :
         tx' = [tx EXCEPT !.st = "built",
                          !.t = Transformer(tx.sproj, tx.tproj, m, deg)]
    /\ UNCHANGED <<tcall, plan, gridVars, ioVars>>

CallTransformer ==
    /\ tx.st \in {"built", "called"}
    /\ \E p \in Points :
         /\ tcall' = call(tx.t, p[2], p[1])
         /\ tx' = [tx EXCEPT !.st = "called"]
    /\ UNCHANGED <<plan, gridVars, ioVars>>

\* _warp(grid, proj): builds the transformer from grid.proj to _Projection(proj)
Warp ==
    /\ Idle
    /\ \E g \in SourceGrids, proj \in CRSs :
         \E m \in LibMaps(g.proj.srs, proj) :
            LET t == Transformer(g.proj, Projection([kind |-> "str", crs |-> proj]),
                                 m, {})
            IN  plan' = [st |-> "done", g |-> g, t |-> t, res |-> warp(g, proj, t)]
    /\ UNCHANGED <<tx, tcall, gridVars, ioVars>>

(***************************************************************************)
(* Table, projection-text and write operations                             *)
(***************************************************************************)
NoLookup == [st |-> "none", key |-> Code(0), first |-> Code(0), second |-> Code(0)]

\* TYPEMAP[key] and TYPEMAP[TYPEMAP[key]]
TypemapLookup ==
    /\ Idle
    /\ \E k \in TypemapKeys :
         tm' = [st |-> "done", key |-> k, first |-> TypemapGet(k),
                second |-> TypemapGet(TypemapGet(k))]
    /\ UNCHANGED <<gridVars, transVars, plan, pj, wr, ar>>

NoParams == [st |-> "none", m |-> {}, text |-> <<>>, exported |-> <<>>, res |-> {}]

\* _Projection(m).getProj4() for a dict m: the items are joined in the dict's
\* iteration order, imported, and the library's export is split and paired
ProjFromParams ==
    /\ Idle
    /\ \E m \in ParamMappings :
         \E items \in Orders(m) :
            \E out \in ExportToProj4(ImportFromProj4(proj4String(items))) :
               pj' = [st |-> "done", m |-> m, text |-> proj4String(items),
                      exported |-> out, res |-> getProj4(out)]
    /\ UNCHANGED <<gridVars, transVars, plan, tm, wr, ar>>

NoWrite ==
    [st |-> "none", cls |-> "none", g |-> NoGrid, ga |-> NoGeoArray,
     fname |-> <<"", "">>,
     metadata |-> [DCAP_CREATE |-> "absent", DCAP_CREATECOPY |-> "absent"],
     ok |-> FALSE, err |-> "", built |-> FALSE, memset |-> NoFile,
     drv |-> NoDriver, file |-> "none",
     back |-> [ok |-> FALSE, err |-> "", g |-> NoGrid]]

\* the array a caller hands to the _DummyGrid that is written: every cell differs
WrittenData(shape) ==
    [dtype |-> "float64", shape |-> shape, flat |-> [i \in 1..Prod(shape) |-> i]]

\* the grids handed to the legacy writer, created without and with data
WrittenGrids ==
    {init("dummy", NoFile, <<nb, nr, 2>>, <<0, 5, cs>>, "float64",
          IF wd THEN WrittenData(<<nb, nr, 2>>) ELSE None, -1, pp) :
        nb \in 1..2, nr \in 1..2, cs \in {1, 2, -1},
        pp \in {{}, {<<<<"proj">>, <<"merc">>>>}}, wd \in BOOLEAN}

\* _GeoGridBase.write(fname)
Write ==
    /\ Idle
    /\ \E g \in WrittenGrids, fname \in FileNames, md \in Metadata,
          cc \in CopyOutcomes :
         \E items \in Orders(g.proj_params) :
            LET r == write(g, items, fname, md, cc)
            IN  wr' = [NoWrite EXCEPT !.st = "written", !.cls = "legacy", !.g = r.g,
                                      !.fname = fname, !.metadata = md, !.ok = r.ok,
                                      !.err = r.err, !.built = r.built,
                                      !.memset = r.memset, !.drv = r.drv,
                                      !.file = r.file]
    /\ UNCHANGED <<gridVars, transVars, plan, tm, pj, ar>>

\* _GdalGrid(...) on the raster the writer built
ReadBack ==
    /\ wr.st = "written"
    /\ wr.cls = "legacy"
    /\ wr.built
    /\ \E ptext \in ExportToProj4(ImportFromProj4(wr.memset.srs)) :
         wr' = [wr EXCEPT !.st = "read",
                          !.back = gdalInit(wr.memset, ptext, {}, "None")]
    /\ UNCHANGED <<gridVars, transVars, plan, tm, pj, ar>>

\* the data of the GeoArrays handed to _toFile
GeoArrayData ==
    {[dtype |-> dt, shape |-> sh, flat |-> [i \in 1..Prod(sh) |-> i]] :
        dt \in DTypes, sh \in {<<2, 2>>, <<2, 1, 2>>}}

\* the dataset of a GeoArray decoded from a file
DecodedFrom(data) ==
    [NoFile EXCEPT !.nbands = IF Len(data.shape) > 2 THEN data.shape[1] ELSE 1,
                   !.nrows = data.shape[Len(data.shape) - 1],
                   !.ncols = data.shape[Len(data.shape)],
                   !.dtype = data.dtype,
                   !.nodata = [b \in 1..(IF Len(data.shape) > 2 THEN data.shape[1]
                                          ELSE 1) |-> 0],
                   !.flat = data.flat, !.trans = <<0, 1, 0, 10, 0, -1>>]

\* _toFile(geoarray, fname)
ToFile ==
    /\ Idle
    /\ \E data \in GeoArrayData, decoded \in BOOLEAN, fname \in FileNames,
          md \in Metadata, cc \in CopyOutcomes :
         LET ga == GeoArray(data, <<-1, 1>>, 0,
                            Projection([kind |-> "str", crs |-> "EPSG:4326"]),
                            IF decoded THEN DecodedFrom(data) ELSE NoFile)
             r == toFile(ga, fname, md, cc)
         IN  wr' = [NoWrite EXCEPT !.st = "written", !.cls = "gdalfuncs", !.ga = ga,
                                   !.fname = fname, !.metadata = md, !.ok = r.ok,
                                   !.err = r.err, !.built = r.built,
                                   !.memset = r.memset, !.drv = r.drv,
                                   !.file = r.file]
    /\ UNCHANGED <<gridVars, transVars, plan, tm, pj, ar>>

\* array(data, ...)
Array ==
    /\ Idle
    /\ \E data \in ArrayData, args \in ArrayArgs :
         ar' = [st |-> "done", data |-> data, args |-> args,
                res |-> array(data, args)]
    /\ UNCHANGED <<gridVars, transVars, plan, tm, pj, wr>>

(***************************************************************************)
(* Claims about the lazy grid                                              *)
(***************************************************************************)
Loaded(g) == ~IsNone(g.data)

\* the dataset of a grid, as one load reads it (independent of the load state)
WholeDataset(g) == AsType(readData(g), g.dtype)

\* the load state machine of a grid created without data: Unloaded exactly
\* while _readData has not run, Loaded through one _readData call, and the load
\* happens only inside an operation that performs an indexed access
C1_StateMachine ==
    (grid.cls # "none" /\ ~given) =>
        /\ reads <= 1
        /\ Loaded(grid) <=> reads = 1
        /\ Loaded(gop.pre) => Loaded(grid)
        /\ (gop.op # "init" /\ ~Loaded(gop.pre) /\ Loaded(grid)) =>
               gop.op \in {"getitem", "setitem", "setNodata"}
        /\ (gop.op \in {"getitem", "setitem"} /\ ~Loaded(gop.pre)) => Loaded(grid)
        /\ (gop.op = "getitem" /\ ~Loaded(gop.pre)) =>
               grid.data = WholeDataset(gop.pre)
        /\ (gop.op = "setitem" /\ ~Loaded(gop.pre)) =>
               grid.data = ArrSet(WholeDataset(gop.pre), gop.idx, gop.val).arr

\* a value written at an index of the grid's shape is what a read at that index
\* returns
C1_WriteThenRead ==
    (grid.cls # "none" /\ ~given /\ gop.op = "setitem" /\ gop.ok
        /\ InRange(getShape(grid), gop.idx)) =>
        LET r == getitem(grid, gop.idx)
        IN  /\ r.ok
            /\ \A i \in DOMAIN r.res.flat : r.res.flat[i] = Cast(grid.dtype, gop.val)

\* C1: a grid created without data is Unloaded until the first indexed access,
\* which loads the whole dataset through one _readData call; a write on an
\* Unloaded grid loads first and then mutates; the grid never returns to
\* Unloaded; _readData runs at most once, and a value written at an index is
\* what a later read at that index returns.
C1_LazyLoad == C1_StateMachine /\ C1_WriteThenRead

\* C2: setting the nodata value of a Loaded grid from v1 to v2 rewrites every
\* cell equal to v1 to v2 (converted to the dtype), leaves every other cell
\* unchanged and stores v2 (converted) as the nodata value.
C2_NodataRewrite ==
    (gop.op = "setNodata" /\ Loaded(gop.pre)) =>
        /\ gop.ok
        /\ grid.nodata = Cast(gop.pre.dtype, gop.val)
        /\ Len(grid.data.flat) = Len(gop.pre.data.flat)
        /\ \A i \in DOMAIN gop.pre.data.flat :
             grid.data.flat[i] =
                IF gop.pre.data.flat[i] = gop.pre.nodata
                THEN Cast(gop.pre.dtype, gop.val)
                ELSE gop.pre.data.flat[i]

C12_ShapeConsistency ==
    grid.cls # "none" =>
        LET r == getitem(grid, <<>>)
        IN  r.ok /\ r.res.shape = getShape(grid)

\* the shape of the full read of the grids that have more than one row or more
\* than one band, created without data
C12_NoUnitAxis ==
    (grid.cls # "none" /\ ~given /\ (grid.nrows > 1 \/ grid.nbands > 1)) =>
        getitem(grid, <<>>).res.shape = getShape(grid)

(***************************************************************************)
(* Claims about the planner                                                *)
(***************************************************************************)
Planned == plan.st = "done" /\ plan.res.st = "ok"

\* the transformed bbox corners of the planned grid
PlanCorners ==
    LET b == bbox(plan.g)
    IN  {call(plan.t, y, x) : y \in {b.ymin, b.ymax}, x \in {b.xmin, b.xmax}}

SetMax(S) == CHOOSE m \in S : \A n \in S : n <= m

SetMin(S) == CHOOSE m \in S : \A n \in S : m <= n

\* C4: ncols = round(|max x_i - min x_i| / cellsize) and nrows likewise from the
\* y_i, over all four transformed corners, cellsize being the transformed ll-ur
\* diagonal over sqrt(nrows^2 + ncols^2).
C4_FourCorners ==
    Planned =>
        LET b == bbox(plan.g)
            xs == {c.xt : c \in PlanCorners}
            ys == {c.yt : c \in PlanCorners}
            t2 == tdiag2(call(plan.t, b.ymin, b.xmin), call(plan.t, b.ymax, b.xmax))
            s2 == plan.g.nrows * plan.g.nrows + plan.g.ncols * plan.g.ncols
        IN  /\ plan.res.tcellsize2 = <<t2, s2>>
            /\ plan.res.shape[3] = RoundCells(SetMax(xs) - SetMin(xs), t2, s2)
            /\ plan.res.shape[2] = RoundCells(SetMax(ys) - SetMin(ys), t2, s2)

SameCRS == Planned /\ plan.g.proj.srs = plan.res.proj

\* the result keeps the source's rows, columns and bands, and its cellsize
\* (-t, t) has the magnitude of the source cellsize (dy, dx)
KeepsGeometry ==
    /\ plan.res.shape = <<plan.g.nbands, plan.g.nrows, plan.g.ncols>>
    /\ plan.res.tcellsize2[1] =
          plan.g.cellsize[1] * plan.g.cellsize[1] * plan.res.tcellsize2[2]
    /\ plan.res.tcellsize2[1] =
          plan.g.cellsize[2] * plan.g.cellsize[2] * plan.res.tcellsize2[2]

\* C5 as claimed: planning into the grid's own CRS keeps rows, columns, bands
\* and the cellsize magnitude, for every source grid.
C5_IdentityEveryGrid == SameCRS => KeepsGeometry

\* C5: planning into the grid's own CRS keeps rows, columns, bands and the
\* cellsize magnitude, for every source grid whose cells are square
\* (|dy| = |dx|).
C5_IdentitySquareCells ==
    (SameCRS /\ Abs(plan.g.cellsize[1]) = Abs(plan.g.cellsize[2])) => KeepsGeometry

C5_Witness ==
    /\ SameCRS
    /\ plan.g.cellsize = <<-2, 2>>
    /\ plan.g.origin = "lr"
    /\ plan.res.shape = <<2, 3, 2>>
    /\ plan.res.tcellsize2 = <<52, 13>>

(***************************************************************************)
(* Claims about the transformer, the tables and the projection text        *)
(***************************************************************************)
Unset(p) == getReference(p) = NoRef

\* C10: a _Transformer whose source or target projection has an unset
\* reference never returns coordinates: a call raises AttributeError, which a
\* failing call on two set references never raises; the projections and the
\* transformer are constructed without an error.
C10_UnsetReference ==
    /\ tx.st = "built" => (tx.t.usable <=> (~Unset(tx.sproj) /\ ~Unset(tx.tproj)))
    /\ tx.st = "called" =>
          /\ (Unset(tx.sproj) \/ Unset(tx.tproj)) =>
                (~tcall.ok /\ tcall.err = "AttributeError")
          /\ (~Unset(tx.sproj) /\ ~Unset(tx.tproj) /\ ~tcall.ok) =>
                tcall.err \notin {"", "AttributeError"}

C10_Witness ==
    /\ tx.st = "called"
    /\ Unset(tx.sproj)
    /\ ~Unset(tx.tproj)
    /\ ~tcall.ok
    /\ tcall.err = "AttributeError"

KindNames ==
    {"uint8", "int8", "uint16", "int16", "uint32", "int32", "float32", "float64",
     "complex64", "complex128"}

\* C6: TYPEMAP maps every kind name but uint8 to a code that maps back to it,
\* every code to a name that maps back to it, and uint8 to the code of int8.
C6_TypemapRoundTrip ==
    /\ {k \in TypemapKeys : k.t = "name"} = {Name(n) : n \in KindNames}
    /\ tm.st = "done" =>
          /\ tm.key.t = "name" => tm.first.t = "code"
          /\ tm.key.t = "code" => tm.first.t = "name"
          /\ (tm.key.t = "name" /\ tm.key # Name("uint8")) => tm.second = tm.key
          /\ tm.key.t = "code" => tm.second = tm.key
          /\ tm.key = Name("uint8") => tm.second = Name("int8")

C6_Witness ==
    /\ tm.st = "done"
    /\ tm.key = Name("uint8")
    /\ tm.first = Code(1)
    /\ tm.second = Name("int8")

\* C9: a projection built from a parameter mapping m gives m back from
\* getProj4, for every item order and every text the library may export for m,
\* texts with value-less flags included.
C9_ParamsRoundTrip == pj.st = "done" => pj.res = pj.m

\* the round trip on the exported texts that carry no flag
C9_NoFlags ==
    (pj.st = "done" /\ pj.exported \in {proj4String(q) : q \in Orders(pj.m)}) =>
        pj.res = pj.m

(***************************************************************************)
(* Claims about the writers                                                *)
(***************************************************************************)
\* the driver table the write used
TableOf(w) == IF w.cls = "legacy" THEN DRIVER_DICT_Legacy ELSE DRIVER_DICT

Mapped(w) == \E e \in TableOf(w) : e[1] = Lower(w.fname[2])

Capable(md) == md.DCAP_CREATE = "YES" \/ md.DCAP_CREATECOPY = "YES"

\* C7: driver selection fails when the lower-cased extension is unmapped,
\* fails when the backend advertises neither capability, and returns the mapped
\* driver when it advertises at least one of them, whatever the other entry
\* says; a write that fails there produces no file.
C7_DriverSelection ==
    (wr.st # "none" /\ wr.built) =>
        /\ ~Mapped(wr) => (~wr.ok /\ ~wr.drv.ok /\ wr.file = "none")
        /\ (Mapped(wr) /\ ~Capable(wr.metadata)) =>
              (~wr.ok /\ ~wr.drv.ok /\ wr.file = "none")
        /\ (Mapped(wr) /\ Capable(wr.metadata)) =>
              /\ wr.drv.ok
              /\ <<Lower(wr.fname[2]), wr.drv.driver>> \in TableOf(wr)

\* the selection when the two capability entries do not contradict each other
C7_ConsistentMetadata ==
    (wr.st # "none" /\ wr.built /\ wr.metadata.DCAP_CREATE # "NO") =>
        /\ ~Mapped(wr) => (~wr.ok /\ ~wr.drv.ok /\ wr.file = "none")
        /\ (Mapped(wr) /\ ~Capable(wr.metadata)) =>
              (~wr.ok /\ ~wr.drv.ok /\ wr.file = "none")
        /\ (Mapped(wr) /\ Capable(wr.metadata)) =>
              /\ wr.drv.ok
              /\ <<Lower(wr.fname[2]), wr.drv.driver>> \in TableOf(wr)

\* the raster carries the grid's size, bands, geotransform and nodata value,
\* and the grid read back from it has the grid's rows, columns, bands, nodata
\* value and cellsize magnitude
RoundTrips(w) ==
    /\ w.built
    /\ w.memset.nrows = w.g.nrows
    /\ w.memset.ncols = w.g.ncols
    /\ w.memset.nbands = w.g.nbands
    /\ w.memset.nodata = [b \in 1..w.g.nbands |-> w.g.nodata]
    /\ w.memset.trans = <<w.g.xllcorner, w.g.cellsize, 0,
                          w.g.yllcorner + w.g.nrows * w.g.cellsize, 0, -w.g.cellsize>>
    /\ w.st = "read" =>
          /\ w.back.ok
          /\ w.back.g.nrows = w.g.nrows
          /\ w.back.g.ncols = w.g.ncols
          /\ w.back.g.nbands = w.g.nbands
          /\ w.back.g.nodata = w.g.nodata
          /\ w.back.g.cellsize = Abs(w.g.cellsize)

\* C8: for every grid, the raster _GridWriter builds, read back through
\* _GdalGrid's constructor, yields the grid's nrows, ncols, nbands, nodata value
\* and cellsize magnitude.
C8_WriteReadRoundTrip == (wr.st # "none" /\ wr.cls = "legacy") => RoundTrips(wr)

\* the full read of the grid has the shape the grid reports
ReadsItsShape(g) == getitem(g, <<>>).res.shape = getShape(g)

\* the round trip of the grids with one band whose full read has the grid's shape
C8_SingleBand ==
    (wr.st # "none" /\ wr.cls = "legacy" /\ wr.g.nbands = 1 /\ ReadsItsShape(wr.g)) =>
        RoundTrips(wr)

\* the cells of band n of a raster
BandOf(ds, n) ==
    [i \in 1..(ds.nrows * ds.ncols) |-> ds.flat[(n - 1) * ds.nrows * ds.ncols + i]]

\* the n-th nrows x ncols plane (n from 1) of an array holding nbands planes
PlaneOf(a, n, nrows, ncols) ==
    [i \in 1..(nrows * ncols) |-> a.flat[(n - 1) * nrows * ncols + i]]

\* every band of the raster built holds the plane of the grid's data with the
\* band's index
BandsArePlanes(w) ==
    LET src == IF w.cls = "legacy" THEN w.g ELSE w.ga
    IN  /\ w.built
        /\ w.memset.nbands = src.nbands
        /\ Len(src.data.flat) = src.nbands * src.nrows * src.ncols
        /\ \A n \in 1..src.nbands :
              BandOf(w.memset, n) = PlaneOf(src.data, n, src.nrows, src.ncols)

\* C11: the in-memory raster built for a write holds, in band n+1, the n-th
\* nrows x ncols plane of the grid's data, for every band count and every band,
\* in _GridWriter._writeGdalMemory and in _getDataset.
C11_BandPlanes == wr.st # "none" => BandsArePlanes(wr)

\* the bands of the rasters _getDataset builds
C11_GetDataset == (wr.st # "none" /\ wr.cls = "gdalfuncs") => BandsArePlanes(wr)

\* the band of the rasters _writeGdalMemory builds for grids with one band
\* whose full read has the grid's shape
C11_LegacySingleBand ==
    (wr.st # "none" /\ wr.cls = "legacy" /\ wr.g.nbands = 1 /\ ReadsItsShape(wr.g)) =>
        BandsArePlanes(wr)

(***************************************************************************)
(* Claims about array()                                                    *)
(***************************************************************************)
GeoArgs == {"yorigin", "xorigin", "origin", "fill_value", "cellsize", "proj", "mode"}

\* what the GeoArray gets for an argument that is not passed and not taken
\* from data
Defaults ==
    [NoArgs EXCEPT !.yorigin = Passed(0), !.xorigin = Passed(0),
                   !.origin = Passed("ul"), !.cellsize = Passed(<<1, 1>>)]

\* the GeoArray gets every passed argument of the set A, the attribute of data
\* for one not passed when data is a GeoArray, and the default otherwise
GetsArguments(A) ==
    \A k \in A :
        ar.res[k] = IF ~ar.args[k].nil THEN ar.args[k]
                    ELSE IF ar.data.geo THEN ar.data.attrs[k]
                    ELSE Defaults[k]

\* C13: every georeferencing argument passed to array() is the value the
\* GeoArray gets, 0 included; one not passed falls back to data's attribute when
\* data is a GeoArray and otherwise to the default.
C13_ExplicitArguments == ar.st = "done" => GetsArguments(GeoArgs)

\* the arguments that are not passed or are passed with a value other than 0
C13_NonZeroArguments ==
    ar.st = "done" =>
        GetsArguments({k \in GeoArgs :
                          ar.args[k].nil \/ k \notin {"yorigin", "xorigin", "fill_value"}
                          \/ ar.args[k].v # 0})

(***************************************************************************)
(* Specification                                                           *)
(***************************************************************************)
Init ==
    /\ grid = NoGrid
    /\ reads = 0
    /\ gop = NoOp
    /\ given = FALSE
    /\ tx = NoTx
    /\ tcall = NoCall
    /\ plan = NoWarp
    /\ tm = NoLookup
    /\ pj = NoParams
    /\ wr = NoWrite
    /\ ar = NoArray

Next ==
    \/ ConstructDummy
    \/ ConstructGdal
    \/ GetItem
    \/ SetItem
    \/ SetNodataValue
    \/ SetDataType
    \/ MakeProjections
    \/ BuildTransformer
    \/ CallTransformer
    \/ Warp
    \/ TypemapLookup
    \/ ProjFromParams
    \/ Write
    \/ ReadBack
    \/ ToFile
    \/ Array

Spec == Init /\ [][Next]_vars

====
